---- MODULE Spec2Model ----
(***************************************************************************)
(* A model of routers/deepseek.py: the DeepSeek gateway router.            *)
(*                                                                         *)
(* Two groups of state are modelled.                                       *)
(*   - The streaming relay of POST /stream: the handler stream_completion, *)
(*     its async generator generate(), the upstream connection it opens    *)
(*     and the framework's StreamingResponse that consumes it.             *)
(*   - The process-wide credential state (API_KEY, config, config.yaml,    *)
(*     the DEEPSEEK_API_KEY environment variable) and the handlers that    *)
(*     read or write it, run as coroutines of one asyncio event loop.      *)
(***************************************************************************)
EXTENDS Naturals, Sequences, FiniteSets

VARIABLES
    \* ---- the relay of one /stream request
    sPc,        \* position of the generator generate()
    conn,       \* the upstream connection of requests.post(..., stream=True):
                \* none, open, eof (closed by the upstream), released
    upStatus,   \* status of the upstream response, NoStatus before it arrives
    cur,        \* the line in the loop body (kept when the body raised), or NoLine
    out,        \* the chunks the generator has yielded, in order
    frames,     \* history: the 'data: ' lines received, in order
    down,       \* what the downstream caller has been sent
    sKey,       \* the credential captured in the handler's headers
    sUsed,      \* the credential sent upstream by the relay, NoCall if none
    \* ---- process-wide credential state
    env,        \* os.environ DEEPSEEK_API_KEY at import, Unset if absent
    file,       \* config/config.yaml, a sequence of lines
    config,     \* the module global config (the parsed file)
    API_KEY,    \* the module global API_KEY
    \* ---- request coroutines on the event loop
    tasks,      \* task id -> the request it runs and what it answered
    running,    \* the task that holds the event loop between awaits
    nset,       \* number of set_api_key requests accepted so far
    last        \* the response a handler has just returned, NoResp if none

relayVars == <<sPc, conn, upStatus, cur, out, frames, down, sKey, sUsed>>
credVars  == <<env, file, config, API_KEY>>
loopVars  == <<tasks, running, nset, last>>
vars      == <<relayVars, credVars, loopVars>>

(***************************************************************************)
(* Bounds of the model.                                                    *)
(***************************************************************************)
MaxFrames == 3      \* data frames (other than the sentinel) one relay reads
MaxTasks  == 2      \* request coroutines in flight at once
MaxSet    == 2      \* set_api_key requests over a run

(***************************************************************************)
(* JSON values, as json.loads returns them: a tagged tuple per type.       *)
(***************************************************************************)
JNull     == <<"null">>
JStr(s)   == <<"str", s>>
JList(s)  == <<"list", s>>
JObj(f)   == <<"obj", f>>
EmptyDict == JObj(<<>>)

\* The outcome of a Python expression: the value, or the exception raised.
Val(v)     == [exc |-> "", val |-> v]
Raise(e)   == [exc |-> e, val |-> JNull]

\* d.get(k, default): only a dict has .get
DictGet(d, k, default) ==
    IF d[1] = "obj"
    THEN Val(IF k \in DOMAIN d[2] THEN d[2][k] ELSE default)
    ELSE Raise("AttributeError")

\* v[0]
Index0(v) ==
    CASE v[1] = "list" -> IF Len(v[2]) > 0 THEN Val(v[2][1]) ELSE Raise("IndexError")
      [] v[1] = "obj"  -> Raise("KeyError")
      [] v[1] = "str"  -> Val(v)
      [] OTHER         -> Raise("TypeError")

(***************************************************************************)
(* Upstream lines.  A line is the sequence of its parts: the text up to    *)
(* and including the first six characters, then the rest.  A payload is    *)
(* raw text; text that is a JSON document carries the value it denotes.    *)
(***************************************************************************)
RawText(s)  == [kind |-> "raw",  text |-> s, val |-> JNull]
JsonText(v) == [kind |-> "json", text |-> "", val |-> v]

DataPrefix == "data: "
DoneText   == RawText("[DONE]")

Choice(delta, fin) == JObj([delta |-> delta, finish_reason |-> fin])
PHi           == JObj([choices |-> JList(<<Choice(JObj([content |-> JStr("hi")]), JNull)>>)])
PNoContent    == JObj([choices |-> JList(<<Choice(EmptyDict, JStr("stop"))>>)])
PNoDelta      == JObj([choices |-> JList(<<JObj([finish_reason |-> JStr("length")])>>)])
PNullContent  == JObj([choices |-> JList(<<Choice(JObj([content |-> JNull]), JNull)>>)])
PNoChoices    == EmptyDict
PEmptyChoices == JObj([choices |-> JList(<<>>)])
PNotObject    == JList(<<>>)

JsonPayloads == {PHi, PNoContent, PNoDelta, PNullContent, PNoChoices,
                 PEmptyChoices, PNotObject}
BadText      == RawText("{oops")

DataLine(p)  == <<DataPrefix, p>>
DoneLine     == DataLine(DoneText)
EmptyLine    == <<>>
CommentLine  == <<": keep-alive">>
EventLine    == <<"event:", RawText("message")>>

FrameLines   == {DataLine(JsonText(v)) : v \in JsonPayloads} \cup {DataLine(BadText)}
OtherLines   == {EmptyLine, CommentLine, EventLine}
NoLine       == <<"none">>

\* line_str.startswith('data: ')
StartsWithData(line) == Len(line) > 0 /\ line[1] = DataPrefix
\* line_str[6:]
DataStr(line) == line[2]

\* json.loads(data_str)
JsonLoads(p) == IF p.kind = "json" THEN Val(p.val) ELSE Raise("JSONDecodeError")

(***************************************************************************)
(* The chunks generate() yields.                                           *)
(***************************************************************************)
Event(content, fin) == [content |-> content, finish_reason |-> fin]
\* f"data: {json.dumps(ev)}\n\n"
Sse(ev)       == <<"data: ", ev, "\n\n">>
StopEvent     == Event(JStr(""), JStr("stop"))
ParseErrorMarker == JStr("[parse error]")
MarkerEvent   == Event(ParseErrorMarker, JNull)

(***************************************************************************)
(* The body of the loop of generate(), for one line of iter_lines().       *)
(***************************************************************************)
\* What the loop body does with a line: nothing, a yield, the yield of the
\* terminal event followed by break, or an exception that leaves the loop.
Skip       == [act |-> "skip",  ev |-> StopEvent,  exc |-> ""]
Yield(ev)  == [act |-> "yield", ev |-> ev,         exc |-> ""]
YieldDone  == [act |-> "done",  ev |-> StopEvent,  exc |-> ""]
Throw(e)   == [act |-> "raise", ev |-> StopEvent,  exc |-> e]

\* delta/content/finish_reason of a decoded payload
ExtractEvent(data) ==
    LET choices == DictGet(data, "choices", JList(<<EmptyDict>>)) IN
    IF choices.exc # "" THEN Throw(choices.exc) ELSE
    LET first == Index0(choices.val) IN
    IF first.exc # "" THEN Throw(first.exc) ELSE
    LET delta == DictGet(first.val, "delta", EmptyDict) IN
    IF delta.exc # "" THEN Throw(delta.exc) ELSE
    LET content == DictGet(delta.val, "content", JStr("")) IN
    IF content.exc # "" THEN Throw(content.exc) ELSE
    LET fin == DictGet(first.val, "finish_reason", JNull) IN
    Yield(Event(content.val, fin.val))

\* except json.JSONDecodeError: the handler yields the marker event.
\* (OnDecodeErrorAbort: the loop body without the handler.)
OnDecodeErrorAbort == Throw("JSONDecodeError")
OnDecodeError == Yield(MarkerEvent)

\* if data_str == '[DONE]': yield the terminal event, then break.
\* (OnSentinelContinue: the branch without the break.)
OnSentinelContinue == Yield(StopEvent)
OnSentinel == YieldDone

HandleLine(line) ==
    IF line = EmptyLine THEN Skip
    ELSE IF ~StartsWithData(line) THEN Skip
    ELSE IF DataStr(line) = DoneText THEN OnSentinel
    ELSE LET data == JsonLoads(DataStr(line)) IN
         IF data.exc = "JSONDecodeError" THEN OnDecodeError
         ELSE ExtractEvent(data.val)

(***************************************************************************)
(* requests: the status checks of a Response.                              *)
(***************************************************************************)
NoStatus == 0
Statuses == {200, 304, 401, 500}
\* response.raise_for_status() raises HTTPError
RaisesForStatus(status) == 400 <= status /\ status < 600
\* bool(response) is response.ok: raise_for_status() does not raise
ResponseTruthy(status) == ~RaisesForStatus(status)
Is2xx(status) == 200 <= status /\ status < 300

\* leaving "with requests.post(...) as response": response.close().
\* (WithExitLeak: the request made without the with statement.)
WithExitLeak(c) == c
WithExit(c) == IF c \in {"open", "eof"} THEN "released" ELSE c

\* where generate() goes when iter_lines() is exhausted: past the loop and
\* out of the with block, to its end.
\* (AfterLoopReadAgain: a loop that goes back to reading.)
AfterLoopReadAgain == "iter"
AfterLoop == "finished"

NoCall  == "<no call>"
Unset   == "<unset>"
NoKey   == ""

(***************************************************************************)
(* Responses.  One record shape for every handler: the HTTP status the     *)
(* caller gets, what kind of answer it is, for an upstream failure the     *)
(* upstream status and body text its detail carries, whether the usage log *)
(* task was scheduled, the credential sent upstream, and the request and   *)
(* the upstream response it answers.                                       *)
(***************************************************************************)
NoText == ""
CompletionBody == "{completion json}"
ErrorBody      == "upstream error text"

NoUp == [net |-> FALSE, status |-> NoStatus, body |-> NoText]
Resp(handler, code, what) ==
    [handler |-> handler, code |-> code, what |-> what,
     dstatus |-> NoStatus, dtext |-> NoText, logged |-> FALSE,
     used |-> NoCall, stream |-> FALSE, json_mode |-> FALSE, up |-> NoUp]
NoResp == Resp("none", 0, "none")

\* What the upstream can answer: a connection failure, or a status and body.
UpAnswers ==
    {[net |-> TRUE, status |-> NoStatus, body |-> NoText]}
    \cup {[net |-> FALSE, status |-> 200, body |-> CompletionBody]}
    \cup {[net |-> FALSE, status |-> 304, body |-> b] : b \in {CompletionBody, NoText}}
    \cup {[net |-> FALSE, status |-> st, body |-> ErrorBody] : st \in {401, 500}}

\* response.json() succeeds
IsJsonBody(b) == b = CompletionBody

(***************************************************************************)
(* The event loop.  A coroutine runs alone from one await to the next; a   *)
(* handler blocked in requests (the generator between two yields) keeps    *)
(* the loop.  A response is handed to the caller, and the record of a      *)
(* finished relay dropped, before the next handler step: neither changes   *)
(* any state of the program.                                               *)
(***************************************************************************)
NoTask   == 0
Tasks    == 1..MaxTasks
IdleTask == [pc |-> "idle", key |-> NoKey]
Keys     == {NoKey, "k1", "k2"}

RelayEnded == sPc \in {"finished", "raised", "closed", "refused"}
LoopFree == running = NoTask /\ sPc \notin {"iter", "line"}
Quiet    == LoopFree /\ last = NoResp /\ ~RelayEnded

(***************************************************************************)
(* POST /stream                                                            *)
(***************************************************************************)

\* if not API_KEY.  (CredentialMissingNever: the handler without the test.)
CredentialMissingNever(key) == FALSE
CredentialMissing(key) == key = NoKey

RelayIdle ==
    /\ sPc = "none" /\ conn = "none" /\ upStatus = NoStatus /\ cur = NoLine
    /\ out = <<>> /\ frames = <<>> /\ down = "none"
    /\ sKey = NoKey /\ sUsed = NoCall

\* The handler: it fails on a missing credential, and otherwise builds the
\* headers, creates the generator and returns the StreamingResponse.  Calling
\* generate() runs none of its body, so nothing inside the handler's try
\* block calls the upstream and its except clause has nothing to catch.
\* Nothing in the handler awaits.
stream_completion ==
    /\ Quiet
    /\ sPc = "none" /\ down = "none"
    /\ IF CredentialMissing(API_KEY)
       THEN /\ down' = "error500:config"
            /\ sPc' = "refused"
            /\ UNCHANGED sKey
       ELSE /\ down' = "pending"
            /\ sPc' = "created"
            /\ sKey' = API_KEY
    /\ UNCHANGED <<conn, upStatus, cur, out, frames, sUsed, credVars, loopVars>>

\* StreamingResponse: http.response.start (200, text/event-stream) is sent
\* before the body iterator is advanced for the first time.
ResponseStart ==
    /\ Quiet
    /\ down = "pending" /\ sPc = "created"
    /\ down' = "started200"
    /\ UNCHANGED <<sPc, conn, upStatus, cur, out, frames, sKey, sUsed, credVars, loopVars>>

\* First advance of the generator: requests.post and raise_for_status.
GenConnect ==
    /\ Quiet
    /\ sPc = "created" /\ down = "started200"
    /\ sUsed' = sKey
    /\ \/ \* the connection fails: requests.post raises, nothing was opened
          /\ sPc' = "raised" /\ down' = "aborted"
          /\ UNCHANGED <<conn, upStatus>>
       \/ \E status \in Statuses :
          /\ upStatus' = status
          /\ IF RaisesForStatus(status)
             THEN /\ conn' = WithExit("open")
                  /\ sPc' = "raised" /\ down' = "aborted"
             ELSE /\ conn' = "open"
                  /\ sPc' = "iter"
                  /\ UNCHANGED down
    /\ UNCHANGED <<cur, out, frames, sKey, credVars, loopVars>>

\* for line in response.iter_lines(): the generator blocks until the
\* upstream delivers the next line or closes the connection, or the read fails.
GenReadLine ==
    /\ sPc = "iter" /\ conn = "open"
    /\ \E line \in FrameLines \cup OtherLines \cup {DoneLine} :
          /\ line \in FrameLines => Len(frames) < MaxFrames
          /\ cur' = line
          /\ frames' = IF StartsWithData(line) THEN Append(frames, line) ELSE frames
          /\ sPc' = "line"
    /\ UNCHANGED <<conn, upStatus, out, down, sKey, sUsed, credVars, loopVars>>

\* The upstream closes the connection while the generator waits for a line.
UpstreamCloses ==
    /\ sPc = "iter" /\ conn = "open"
    /\ conn' = "eof"
    /\ UNCHANGED <<sPc, upStatus, cur, out, frames, down, sKey, sUsed, credVars, loopVars>>

\* iter_lines() is exhausted: the loop ends and the with block is left.
GenReadEof ==
    /\ sPc = "iter" /\ conn = "eof"
    /\ sPc' = AfterLoop
    /\ IF AfterLoop = "finished"
       THEN conn' = WithExit(conn) /\ down' = "complete"
       ELSE UNCHANGED <<conn, down>>
    /\ UNCHANGED <<upStatus, cur, out, frames, sKey, sUsed, credVars, loopVars>>

\* The read fails while the generator waits for a line (connection reset,
\* chunked encoding error): the exception leaves the with block.
GenReadFails ==
    /\ sPc = "iter" /\ conn = "open"
    /\ conn' = WithExit(conn)
    /\ sPc' = "raised" /\ down' = "aborted"
    /\ UNCHANGED <<upStatus, cur, out, frames, sKey, sUsed, credVars, loopVars>>

\* The loop body on the line just read.
GenHandleLine ==
    /\ sPc = "line"
    /\ LET h == HandleLine(cur) IN
       /\ cur' = IF h.act = "raise" THEN cur ELSE NoLine
       /\ CASE h.act = "skip"  -> /\ sPc' = "iter"
                                  /\ UNCHANGED <<conn, out, down>>
            [] h.act = "yield" -> /\ sPc' = "yield"
                                  /\ out' = Append(out, Sse(h.ev))
                                  /\ UNCHANGED <<conn, down>>
            [] h.act = "done"  -> /\ sPc' = "yieldDone"
                                  /\ out' = Append(out, Sse(h.ev))
                                  /\ UNCHANGED <<conn, down>>
            [] h.act = "raise" -> /\ sPc' = "raised" /\ down' = "aborted"
                                  /\ conn' = WithExit(conn)
                                  /\ UNCHANGED out
    /\ UNCHANGED <<upStatus, frames, sKey, sUsed, credVars, loopVars>>

\* The framework has sent the chunk and advances the generator again: after
\* an event the loop goes on, after the terminal event it breaks.
ConsumerPull ==
    /\ Quiet
    /\ down = "started200"
    /\ \/ /\ sPc = "yield"
          /\ sPc' = "iter"
          /\ UNCHANGED <<conn, down>>
       \/ /\ sPc = "yieldDone"
          /\ sPc' = "finished" /\ down' = "complete"
          /\ conn' = WithExit(conn)
    /\ UNCHANGED <<upStatus, cur, out, frames, sKey, sUsed, credVars, loopVars>>

\* The downstream caller disconnects: the framework stops advancing the
\* generator.  It can only notice while the generator is suspended.
ConsumerCancel ==
    /\ Quiet
    /\ down = "started200"
    /\ sPc \in {"created", "yield", "yieldDone"}
    /\ down' = "cancelled"
    /\ UNCHANGED <<sPc, conn, upStatus, cur, out, frames, sKey, sUsed, credVars, loopVars>>

\* The abandoned generator is finalized (aclose): GeneratorExit is raised at
\* the yield it is suspended at and leaves the with block; a generator that
\* never ran is just marked closed.
GenFinalize ==
    /\ Quiet
    /\ down = "cancelled"
    /\ sPc \in {"created", "yield", "yieldDone"}
    /\ sPc' = "closed"
    /\ conn' = WithExit(conn)
    /\ UNCHANGED <<upStatus, cur, out, frames, down, sKey, sUsed, credVars, loopVars>>

\* The request is over and its objects are dropped; the next /stream request
\* starts a fresh relay.
RelayForget ==
    /\ RelayEnded
    /\ sPc' = "none" /\ conn' = "none" /\ upStatus' = NoStatus /\ cur' = NoLine
    /\ out' = <<>> /\ frames' = <<>> /\ down' = "none"
    /\ sKey' = NoKey /\ sUsed' = NoCall
    /\ UNCHANGED <<credVars, loopVars>>

(***************************************************************************)
(* config.yaml.  The file is the list content.split('\n'): a line has its  *)
(* leading spaces, its key and its value; a blank line has no key.  The    *)
(* files of the model are indented by two spaces, as the writer assumes.   *)
(***************************************************************************)
Plain(s)   == [q |-> FALSE, s |-> s]
Quoted(s)  == [q |-> TRUE,  s |-> s]
Ln(ind, key, val) == [ind |-> ind, key |-> key, val |-> val]
Blank      == Ln(0, "", Plain(""))

\* not line.strip()
IsBlank(l) == l.key = ""
\* (len(line) - len(line.lstrip())) // 2
Level(l) == l.ind \div 2
\* re.match(r'^\s*' + name + r'\s*:', line)
MatchesName(l, name) == l.key = name
\* re.match("^  " + name + ":.*$", line), the pattern of a level-1 field
MatchesField(l, name) == l.ind = 2 /\ l.key = name

InsertAt(lines, pos, l) ==
    SubSeq(lines, 1, pos) \o <<l>> \o SubSeq(lines, pos + 1, Len(lines))

\* yaml.safe_load of the file, as far as the handlers read it:
\* config.get('deepseek', {}).get('api_key').  A later duplicate of a key
\* replaces the earlier one.
RECURSIVE ParseFrom(_, _, _, _)
ParseFrom(lines, i, section, cfg) ==
    IF i > Len(lines) THEN cfg
    ELSE LET l == lines[i] IN
         IF IsBlank(l) THEN ParseFrom(lines, i + 1, section, cfg)
         ELSE IF l.ind = 0
              THEN ParseFrom(lines, i + 1, l.key,
                             IF l.key = "deepseek"
                             THEN [deepseek |-> TRUE, api_key |-> ""]
                             ELSE cfg)
         ELSE IF section = "deepseek" /\ l.ind = 2 /\ l.key = "api_key"
              THEN ParseFrom(lines, i + 1, section, [cfg EXCEPT !.api_key = l.val.s])
         ELSE ParseFrom(lines, i + 1, section, cfg)

load_config(lines) == ParseFrom(lines, 1, "", [deepseek |-> FALSE, api_key |-> ""])

\* config.get('deepseek', {}).get('api_key')
ConfigKey(cfg) == cfg.api_key

(***************************************************************************)
(* update_yaml_field(content, [parent, target], new_value)                 *)
(***************************************************************************)
\* first pass: is the parent field there?
ParentFound(lines, parent) ==
    \E i \in 1..Len(lines) :
        ~IsBlank(lines[i]) /\ Level(lines[i]) < 1 /\ MatchesName(lines[i], parent)

\* parent missing: the position after the first line that is the last one
\* or is followed by a blank line
InsertPos(lines) ==
    LET ends == {i \in 1..Len(lines) : i = Len(lines) \/ IsBlank(lines[i + 1])}
    IN  IF ends = {} THEN 0
        ELSE CHOOSE i \in ends : \A j \in ends : i <= j

\* the loop "for level in range(first_missing, len(field_path))" with
\* first_missing = 1: it runs for level 1 only, the target field, whose
\* indent is 2 * (level - 1)
CreateMissing(lines, parent, target, v) ==
    InsertAt(lines, InsertPos(lines), Ln(0, target, Quoted(v)))

\* the index of the target field in the block under the parent at i, or 0
RECURSIVE FieldIn(_, _, _, _)
FieldIn(lines, j, indent, target) ==
    IF j > Len(lines) THEN 0
    ELSE IF ~(IsBlank(lines[j]) \/ lines[j].ind > indent) THEN 0
    ELSE IF MatchesField(lines[j], target) THEN j
    ELSE FieldIn(lines, j + 1, indent, target)

\* second pass: the loop over the lines, from line i on
RECURSIVE UpdateFrom(_, _, _, _, _, _)
UpdateFrom(lines, i, found, parent, target, v) ==
    IF i > Len(lines)
    THEN IF found THEN lines
         ELSE lines \o <<Ln(0, parent, Plain("")), Ln(2, target, Quoted(v))>>
    ELSE LET l == lines[i] IN
         IF IsBlank(l) THEN UpdateFrom(lines, i + 1, found, parent, target, v)
         ELSE IF Level(l) = 0 /\ MatchesName(l, parent)
              THEN LET j == FieldIn(lines, i + 1, l.ind, target) IN
                   IF j # 0
                   THEN UpdateFrom([lines EXCEPT ![j] = Ln(2, target, Quoted(v))],
                                   i + 1, TRUE, parent, target, v)
                   ELSE IF ~found
                        THEN InsertAt(lines, i, Ln(2, target, Quoted(v)))
                        ELSE UpdateFrom(lines, i + 1, found, parent, target, v)
         ELSE UpdateFrom(lines, i + 1, found, parent, target, v)

update_yaml_field(lines, parent, target, v) ==
    IF ~ParentFound(lines, parent)
    THEN CreateMissing(lines, parent, target, v)
    ELSE UpdateFrom(lines, 1, FALSE, parent, target, v)

(***************************************************************************)
(* POST /chat: chat_completion.  Nothing in it awaits; requests.post       *)
(* blocks the event loop.                                                  *)
(***************************************************************************)
\* if request.stream.  (StreamRejectedNever: the handler without the test.)
StreamRejectedNever(stream) == FALSE
StreamRejected(stream) == stream

\* except requests.exceptions.RequestException as e: the detail is str(e),
\* which names the status of an HTTPError, and e.response.text when
\* "hasattr(e, 'response') and e.response" is true
ErrorDetail(r, up) ==
    [r EXCEPT !.dstatus = IF ~up.net /\ RaisesForStatus(up.status)
                          THEN up.status ELSE NoStatus,
              !.dtext   = IF ~up.net /\ RaisesForStatus(up.status)
                             /\ ResponseTruthy(up.status)
                          THEN up.body ELSE NoText]

ChatOutcome(key, stream, json_mode, up) ==
    LET req(r) == [r EXCEPT !.stream = stream, !.json_mode = json_mode] IN
    IF CredentialMissing(key) THEN req(Resp("chat", 500, "config"))
    ELSE IF StreamRejected(stream) THEN req(Resp("chat", 400, "guidance"))
    ELSE LET called(r) == [req(r) EXCEPT !.used = key, !.up = up] IN
         IF up.net \/ RaisesForStatus(up.status) \/ ~IsJsonBody(up.body)
         THEN ErrorDetail(called(Resp("chat", 500, "upstream")), up)
         ELSE [called(Resp("chat", 200, "ok")) EXCEPT !.logged = TRUE]

Deliver ==
    /\ last # NoResp
    /\ last' = NoResp
    /\ UNCHANGED <<relayVars, credVars, tasks, running, nset>>

chat_completion ==
    /\ Quiet
    /\ \E stream \in BOOLEAN, json_mode \in BOOLEAN, up \in UpAnswers :
          last' = ChatOutcome(API_KEY, stream, json_mode, up)
    /\ UNCHANGED <<relayVars, credVars, tasks, running, nset>>

(***************************************************************************)
(* GET /models, GET /balance, GET /check_api_key.  Each reads its          *)
(* credential before its first await and reads no shared state after it.   *)
(* An HTTPException raised inside the try block of list_models and         *)
(* get_user_balance is caught by their "except Exception" and answered 500.*)
(***************************************************************************)
\* api_key = config.get('deepseek', {}).get('api_key')
ConfigOnlyOutcome(handler, cfg, up) ==
    LET key == ConfigKey(cfg) IN
    IF key = NoKey THEN Resp(handler, 500, "config")
    ELSE LET r == [Resp(handler, 500, "upstream") EXCEPT !.used = key, !.up = up] IN
         IF up.net \/ up.status # 200 THEN r
         ELSE [r EXCEPT !.code = 200, !.what = "ok"]

list_models ==
    /\ Quiet
    /\ \E up \in UpAnswers : last' = ConfigOnlyOutcome("models", config, up)
    /\ UNCHANGED <<relayVars, credVars, tasks, running, nset>>

get_user_balance ==
    /\ Quiet
    /\ \E up \in UpAnswers : last' = ConfigOnlyOutcome("balance", config, up)
    /\ UNCHANGED <<relayVars, credVars, tasks, running, nset>>

\* api_key = API_KEY or config.get('deepseek', {}).get('api_key', '')
CheckOutcome(key, cfg, up) ==
    LET k == IF key # NoKey THEN key ELSE ConfigKey(cfg) IN
    IF k = NoKey THEN Resp("check", 200, "not set")
    ELSE LET r == [Resp("check", 200, "invalid") EXCEPT !.used = k, !.up = up] IN
         IF up.net \/ up.status # 200 THEN r
         ELSE [r EXCEPT !.what = "ok"]

check_api_key ==
    /\ Quiet
    /\ \E up \in UpAnswers : last' = CheckOutcome(API_KEY, config, up)
    /\ UNCHANGED <<relayVars, credVars, tasks, running, nset>>

(***************************************************************************)
(* POST /set_api_key                                                       *)
(***************************************************************************)
\* The handler up to its first await: the validation request is sent.
set_api_key(t) ==
    /\ Quiet
    /\ tasks[t].pc = "idle"
    /\ nset < MaxSet
    /\ \E k \in Keys : tasks' = [tasks EXCEPT ![t] = [pc |-> "validating", key |-> k]]
    /\ nset' = nset + 1
    /\ UNCHANGED <<relayVars, credVars, running, last>>

\* Who holds the loop after "API_KEY = request.api_key": the handler goes on
\* to the file without awaiting.
\* (LoopAfterAssignAwait: an await there, which gives the loop up.)
LoopAfterAssignAwait(t) == NoTask
LoopAfterAssign(t) == t

SetResp(t, what) ==
    [Resp("set_api_key", IF what = "neterror" THEN 500 ELSE 200, what)
        EXCEPT !.used = tasks[t].key]

\* The validation answer arrives.  A status other than 200 and a client
\* error end the request with nothing changed; after 200 the handler
\* assigns the global API_KEY.
SetKeyValidated(t) ==
    /\ Quiet
    /\ tasks[t].pc = "validating"
    /\ \/ /\ \E what \in {"invalid", "neterror"} : last' = SetResp(t, what)
          /\ tasks' = [tasks EXCEPT ![t] = IdleTask]
          /\ UNCHANGED <<API_KEY, running>>
       \/ /\ API_KEY' = tasks[t].key
          /\ tasks' = [tasks EXCEPT ![t].pc = "assigned"]
          /\ running' = LoopAfterAssign(t)
          /\ UNCHANGED last
    /\ UNCHANGED <<relayVars, env, file, config, nset>>

Resumes(t) == running = t \/ (running = NoTask /\ Quiet)

\* open/read, update_yaml_field, open/write.  A failing open leaves the
\* file as it is and the handler answers success=False.
SetKeySave(t) ==
    /\ Resumes(t)
    /\ tasks[t].pc = "assigned"
    /\ \/ /\ file' = update_yaml_field(file, "deepseek", "api_key", tasks[t].key)
          /\ tasks' = [tasks EXCEPT ![t].pc = "written"]
          /\ running' = t
          /\ UNCHANGED last
       \/ /\ last' = SetResp(t, "savefail")
          /\ tasks' = [tasks EXCEPT ![t] = IdleTask]
          /\ running' = NoTask
          /\ UNCHANGED file
    /\ UNCHANGED <<relayVars, env, config, API_KEY, nset>>

\* config = load_config(), then success=True
SetKeyReload(t) ==
    /\ Resumes(t)
    /\ tasks[t].pc = "written"
    /\ config' = load_config(file)
    /\ last' = SetResp(t, "ok")
    /\ tasks' = [tasks EXCEPT ![t] = IdleTask]
    /\ running' = NoTask
    /\ UNCHANGED <<relayVars, env, file, API_KEY, nset>>

(***************************************************************************)
(* Import of the module: config = load_config() and                        *)
(* API_KEY = os.environ.get("DEEPSEEK_API_KEY", config api_key).           *)
(***************************************************************************)
FileWithKey   == <<Ln(0, "deepseek", Plain("")), Ln(2, "api_key", Quoted("k0")),
                   Ln(2, "api_base", Plain("u")), Blank>>
FileNoKey     == <<Ln(0, "deepseek", Plain("")), Ln(2, "api_base", Plain("u")), Blank>>
FileNoSection == <<Ln(0, "server", Plain("")), Ln(2, "port", Plain("8000")), Blank>>
InitialFiles  == {FileWithKey, FileNoKey, FileNoSection}
EnvValues     == {Unset, "kE"}

ImportKey(e, cfg) == IF e # Unset THEN e ELSE ConfigKey(cfg)

Import(envs, files) ==
    /\ env \in envs
    /\ file \in files
    /\ config = load_config(file)
    /\ API_KEY = ImportKey(env, config)

LoopInit ==
    /\ tasks = [t \in Tasks |-> IdleTask]
    /\ running = NoTask
    /\ nset = 0
    /\ last = NoResp

(***************************************************************************)
(* Spec: the handlers as coroutines over the shared credential state.  The *)
(* relay is followed up to its upstream call; the upstream then sends no   *)
(* line.                                                                   *)
(***************************************************************************)
Init == Import(EnvValues, InitialFiles) /\ RelayIdle /\ LoopInit

Next ==
    \/ chat_completion
    \/ list_models
    \/ get_user_balance
    \/ check_api_key
    \/ \E t \in Tasks : set_api_key(t)
    \/ \E t \in Tasks : SetKeyValidated(t)
    \/ \E t \in Tasks : SetKeySave(t)
    \/ \E t \in Tasks : SetKeyReload(t)
    \/ Deliver
    \/ stream_completion
    \/ ResponseStart
    \/ GenConnect
    \/ UpstreamCloses
    \/ GenReadEof
    \/ GenReadFails
    \/ ConsumerCancel
    \/ GenFinalize
    \/ RelayForget

Spec == Init /\ [][Next]_vars

(***************************************************************************)
(* RelaySpec: one relay at a time against an upstream that sends lines.    *)
(***************************************************************************)
RelayInit == Import({Unset}, {FileWithKey, FileNoKey}) /\ RelayIdle /\ LoopInit

RelayNext ==
    \/ stream_completion
    \/ ResponseStart
    \/ GenConnect
    \/ GenReadLine
    \/ UpstreamCloses
    \/ GenReadEof
    \/ GenReadFails
    \/ GenHandleLine
    \/ ConsumerPull
    \/ ConsumerCancel
    \/ GenFinalize
    \/ RelayForget

RelaySpec == RelayInit /\ [][RelayNext]_vars

\* The relay under the scheduling it can count on: the framework advances
\* the generator, the upstream delivers a line or closes (or the read fails)
\* while the generator waits, the consumer takes the chunk or disconnects,
\* and an abandoned generator is finalized.  Requests need not arrive.
RelayFairness ==
    /\ WF_vars(ResponseStart)
    /\ WF_vars(GenConnect)
    /\ WF_vars(GenReadLine \/ UpstreamCloses \/ GenReadFails)
    /\ WF_vars(GenReadEof)
    /\ WF_vars(GenHandleLine)
    /\ WF_vars(ConsumerPull \/ ConsumerCancel)
    /\ WF_vars(GenFinalize)

FairRelaySpec == RelaySpec /\ RelayFairness

(***************************************************************************)
(* Properties of the relay (RelaySpec, FairRelaySpec).                     *)
(***************************************************************************)
\* the payload of a 'data: ' line decodes as JSON
Decodable(line)   == JsonLoads(DataStr(line)).exc = ""
Undecodable(line) == line # DoneLine /\ ~Decodable(line)
\* the chunk the loop body yields for a frame
ChunkOf(line)     == Sse(HandleLine(line).ev)
\* the loop body raised on the line in cur
RaisedInBody      == sPc = "raised" /\ cur # NoLine
\* the last frame received is in cur, not yet handled
FramePending      == sPc = "line" /\ StartsWithData(cur)

Answered(handler) == last.handler = handler
\* the tasks between "API_KEY = request.api_key" and the return
MidUpdate == {t \in Tasks : tasks[t].pc \in {"assigned", "written"}}
\* the value persisted in config.yaml
FileKey == ConfigKey(load_config(file))

\* C4: a /chat call made with no credential configured is answered with the
\* configuration error and has sent nothing upstream; a /stream call made
\* with no credential is refused with the configuration error, never opens
\* a connection and never sends anything upstream, and a /stream call that
\* was accepted had a credential, the one it sends.
C4_NoCredentialNoCall ==
    /\ (Answered("chat") /\ API_KEY = NoKey)
          => last.what = "config" /\ last.code = 500 /\ last.used = NoCall
    /\ (Answered("chat") /\ last.used # NoCall) => last.used = API_KEY
    /\ sPc = "refused"
          => /\ API_KEY = NoKey /\ down = "error500:config"
             /\ sUsed = NoCall /\ conn = "none" /\ out = <<>>
    /\ sPc \notin {"none", "refused"} => sKey # NoKey
    /\ sUsed # NoCall => sUsed = sKey

\* both handlers refused for want of a credential, after set_api_key requests
C4_Witness ==
    /\ nset > 0 /\ API_KEY = NoKey
    /\ \/ Answered("chat") /\ last.what = "config" /\ ~last.stream
       \/ sPc = "refused"

\* C5 as stated: a /chat call with stream=true is answered with the guidance
\* error, status 400, and has sent nothing upstream.
C5_StreamAlwaysGuidance ==
    (Answered("chat") /\ last.stream)
       => last.what = "guidance" /\ last.code = 400 /\ last.used = NoCall

\* C5: a /chat call with stream=true has sent nothing upstream; it is
\* answered with the guidance error, status 400, when a credential is
\* configured and with the configuration error, status 500, when none is.
C5_StreamRejected ==
    (Answered("chat") /\ last.stream)
       => /\ last.used = NoCall
          /\ IF API_KEY = NoKey
             THEN last.what = "config" /\ last.code = 500
             ELSE last.what = "guidance" /\ last.code = 400

\* stream=true with a credential, in JSON mode, after a key was set
C5_Witness ==
    /\ Answered("chat") /\ last.stream /\ last.json_mode
    /\ last.what = "guidance" /\ API_KEY \in Keys \ {NoKey}

\* C8: a /chat call the upstream answered with a non-2xx status is answered
\* with an error whose detail carries that status and the upstream body
\* text, and the usage log task was not scheduled.
C8_ChatErrorCarriesStatusAndBody ==
    (Answered("chat") /\ last.used # NoCall /\ ~last.up.net /\ ~Is2xx(last.up.status))
       => /\ last.code # 200
          /\ last.dstatus = last.up.status
          /\ last.dtext = last.up.body
          /\ ~last.logged

\* the credential the precedence rule names: the environment variable when
\* it is set, else the value persisted in config.yaml
PrecedenceKey == IF env # Unset THEN env ELSE FileKey

\* C9: whatever endpoint sends a credential upstream sends the one the
\* precedence rule names.  (For /stream: the credential in the headers of a
\* relay created before any set_api_key request.)
C9_EnvPrecedence ==
    /\ (last.handler \in {"chat", "models", "balance", "check"} /\ last.used # NoCall)
          => last.used = PrecedenceKey
    /\ (sPc = "created" /\ nset = 0) => sKey = PrecedenceKey

\* C10 as stated: when a set_api_key request that passed validation has
\* returned and no other is in flight, the in-memory key, the key in the
\* config file and the key in the in-memory config are the same.
C10_KeysAgree ==
    (/\ Answered("set_api_key") /\ last.what \in {"ok", "savefail"}
     /\ \A t \in Tasks : tasks[t].pc = "idle")
    => API_KEY = FileKey /\ API_KEY = ConfigKey(config)

\* C10: the steps of an update are not interleaved with anything: at most
\* one request is between its assignment of API_KEY and its return, it holds
\* the event loop and API_KEY is its key, and no handler has answered
\* meanwhile; a request that passed validation and returns (with success=True,
\* or success=False after a failed save) leaves its key in API_KEY.
C10_UpdateNotInterleaved ==
    /\ Cardinality(MidUpdate) <= 1
    /\ \A t \in MidUpdate : running = t /\ API_KEY = tasks[t].key
    /\ MidUpdate # {} => last = NoResp
    /\ (Answered("set_api_key") /\ last.what \in {"ok", "savefail"})
          => API_KEY = last.used

\* one request is in the middle of its update while another awaits validation
C10_Witness ==
    \E t, u \in Tasks :
        /\ tasks[t].pc = "written" /\ tasks[u].pc = "validating"
        /\ tasks[t].key # tasks[u].key /\ API_KEY = tasks[t].key /\ API_KEY # NoKey

\* the fields of the file other than deepseek.api_key, in order
RECURSIVE OtherFieldsFrom(_, _, _)
OtherFieldsFrom(lines, i, section) ==
    IF i > Len(lines) THEN <<>>
    ELSE LET l == lines[i] IN
         IF IsBlank(l) THEN OtherFieldsFrom(lines, i + 1, section)
         ELSE IF l.ind = 0 THEN <<l>> \o OtherFieldsFrom(lines, i + 1, l.key)
         ELSE IF section = "deepseek" /\ l.ind = 2 /\ l.key = "api_key"
              THEN OtherFieldsFrom(lines, i + 1, section)
         ELSE <<l>> \o OtherFieldsFrom(lines, i + 1, section)

OtherFields(lines) == OtherFieldsFrom(lines, 1, "")

\* the step in which request t returns success=True
ReturnsSuccess(t) == tasks[t].pc = "written" /\ tasks'[t].pc = "idle"
\* the step in which request t learns that validation did not answer 200
ReturnsInvalid(t) == tasks[t].pc = "validating" /\ tasks'[t].pc = "idle"
\* the step in which request t rewrites the file
Rewrites(t)       == tasks[t].pc = "assigned" /\ tasks'[t].pc = "written"

\* C13: the rewrite of the file changes no field other than
\* deepseek.api_key, whatever the file held before; when set_api_key returns
\* success=True for key k the file has deepseek.api_key = k, the reloaded
\* config has deepseek.api_key = k and API_KEY is k; and a validation answer
\* other than 200 leaves API_KEY, the config and the file as they were.
C13_SetKeyPersistsEverywhere ==
    [][\A t \in Tasks :
          /\ Rewrites(t) => OtherFields(file') = OtherFields(file)
          /\ ReturnsSuccess(t) =>
                LET k == tasks[t].key IN
                /\ FileKey' = k /\ ConfigKey(config') = k /\ API_KEY' = k
          /\ ReturnsInvalid(t) =>
                API_KEY' = API_KEY /\ config' = config /\ file' = file
      ]_vars

====
